---- MODULE Spec2Model ----
(***************************************************************************)
(* Volume orientation subsystem of FlyBrain-Template-ID:                   *)
(*   apply_rotation.py      rotation of the image stack + spacing update   *)
(*   convert_tiff_to_nrrd.py  per-channel canonical volumes                *)
(*   reset_rotation.py      reset                                          *)
(*   get_image_data.py      analysis save into orientations.json           *)
(* Indices are 1-based; spacings are integers in units of 0.1 um.          *)
(***************************************************************************)
EXTENDS Integers, Sequences, FiniteSets, TLC

VARIABLES
    tiff,      \* Images/<image_path>.tif : the raw stack file
    tmp,       \* the mkstemp() file next to it
    store,     \* orientations.json
    bgN,       \* channels/<base>_background.nrrd
    sigN,      \* channels/<base>_signal.nrrd
    pc,        \* position of the running process ("idle" when none runs)
    req,       \* rotations argument of the current / last apply_rotation run
    mem,       \* the rotated array held in memory by apply_rotation.main
    outcome,   \* how the last process ended
    touched,   \* files written, created or replaced by the current / last process
    backup,    \* _backups/<image_path>.tif
    op,        \* which program the current / last process runs
    pre,       \* snapshot of the files taken when the process started
    hist,      \* summary of the processes run so far
    nops,      \* number of processes started so far
    io,        \* the last function call made on its own: name, arguments, result
    progress   \* corrected/<image_base>_alignment_progress.json

vars ==
    <<tiff, tmp, store, bgN, sigN, backup, pc, op, req, mem, outcome, touched, pre, hist, nops, io,
      progress>>

----------------------------------------------------------------------------
(* Bounds *)

MaxAxes == 2      \* number of axis entries in a rotation request
MaxReps == 4      \* repetitions of one request that hist counts
MaxOps == 2       \* processes started in one behaviour of Spec
MaxRuns == 4      \* runs of update_alignment_progress in one behaviour of SpecProgress

----------------------------------------------------------------------------
(* Arrays.  A volume is a view of one channel of the acquired stack:       *)
(* array axis i runs along acquired axis ax[i], backwards when rev[i], so  *)
(* flips and transpositions are modelled exactly by their index maps.      *)

RawShape == <<40, 512, 512>>       \* [Z, Y, X] extent of the acquired stack

Swap(t, a, b) ==
    [i \in 1..3 |-> IF i = a THEN t[b] ELSE IF i = b THEN t[a] ELSE t[i]]

\* the acquired voxel that element p of volume m holds
VoxelAt(m, p) ==
    [chan |-> m.chan,
     at |-> [q \in 1..3 |->
               LET i == CHOOSE i \in 1..3 : m.ax[i] = q
               IN  IF m.rev[i] THEN m.shape[i] + 1 - p[i] ELSE p[i]]]

\* np.flip(m, axis)
Flip(m, axis) == [m EXCEPT !.rev[axis] = ~m.rev[axis]]

\* np.transpose(m, axes_list) with axes a and b exchanged
TransposeSwap(m, a, b) ==
    [m EXCEPT !.shape = Swap(m.shape, a, b),
              !.ax = Swap(m.ax, a, b),
              !.rev = Swap(m.rev, a, b)]

\* np.transpose(m, (2, 1, 0))
TransposeZYX(m) == TransposeSwap(m, 1, 3)

\* np.rot90(m, k, axes)
rot90(m, k, axes) ==
    LET a == axes[1]
        b == axes[2]
        kk == k % 4
    IN  IF kk = 0 THEN m
        ELSE IF kk = 1 THEN TransposeSwap(Flip(m, b), a, b)
        ELSE IF kk = 2 THEN Flip(Flip(m, a), b)
        ELSE Flip(TransposeSwap(m, a, b), b)

NoVolume == [chan |-> -1, shape |-> <<0, 0, 0>>, ax |-> <<0, 0, 0>>, rev |-> <<FALSE, FALSE, FALSE>>]

----------------------------------------------------------------------------
(* Rotation requests: the JSON mapping, in the order of its keys *)

AxisNames == {"x", "y", "z"}
Degrees == {0, 90, 180, 270, 45}

DistinctAxes(r) == \A i, j \in DOMAIN r : i # j => r[i][1] # r[j][1]

Requests ==
    UNION {{r \in [1..n -> AxisNames \X Degrees] : DistinctAxes(r)} : n \in 0..MaxAxes}

axis_mapping == [x |-> <<1, 2>>, y |-> <<1, 3>>, z |-> <<2, 3>>]

Raised(e) == [err |-> e, vol |-> NoVolume]
Returned(v) == [err |-> "none", vol |-> v]

\* apply_rotations with the quarter-turn count left at np.rot90's default k = 1
RECURSIVE apply_rotations_k1(_, _)
apply_rotations_k1(data_3d, rotations) ==
    IF rotations = <<>> THEN Returned(data_3d)
    ELSE LET axis == rotations[1][1]
             degrees == rotations[1][2]
         IN  IF degrees = 0 THEN apply_rotations_k1(data_3d, Tail(rotations))
             ELSE IF degrees \notin {0, 90, 180, 270} THEN Raised("ValueError")
             ELSE apply_rotations_k1(rot90(data_3d, 1, axis_mapping[axis]),
                                     Tail(rotations))

\* apply_rotations skipping an unsupported amount instead of raising
RECURSIVE apply_rotations_skip(_, _)
apply_rotations_skip(data_3d, rotations) ==
    IF rotations = <<>> THEN Returned(data_3d)
    ELSE LET axis == rotations[1][1]
             degrees == rotations[1][2]
         IN  IF degrees = 0 THEN apply_rotations_skip(data_3d, Tail(rotations))
             ELSE IF degrees \notin {0, 90, 180, 270}
             THEN apply_rotations_skip(data_3d, Tail(rotations))
             ELSE apply_rotations_skip(rot90(data_3d, degrees \div 90, axis_mapping[axis]),
                                       Tail(rotations))

RECURSIVE apply_rotations(_, _)
apply_rotations(data_3d, rotations) ==
    IF rotations = <<>> THEN Returned(data_3d)
    ELSE LET axis == rotations[1][1]
             degrees == rotations[1][2]
         IN  IF degrees = 0 THEN apply_rotations(data_3d, Tail(rotations))
             ELSE IF degrees \notin {0, 90, 180, 270} THEN Raised("ValueError")
             ELSE apply_rotations(rot90(data_3d, degrees \div 90, axis_mapping[axis]),
                                  Tail(rotations))

----------------------------------------------------------------------------
(* Files *)

NoStack == [ndim |-> 0, chans |-> <<>>, meta |-> <<>>]

Absent == [st |-> "absent", body |-> NoStack]
Empty == [st |-> "empty", body |-> NoStack]
Partial == [st |-> "partial", body |-> NoStack]
Full(stack) == [st |-> "full", body |-> stack]

\* main, lines 85-99: every channel of the stack gets the same request
RotateChannels(stack, rotations) ==
    [ch \in DOMAIN stack.chans |-> apply_rotations(stack.chans[ch], rotations)]

RotateStack(stack, rotations) ==
    LET rotated_channels == RotateChannels(stack, rotations)
    IN  IF \E ch \in DOMAIN rotated_channels : rotated_channels[ch].err # "none"
        THEN [err |-> "ValueError", stack |-> NoStack]
        ELSE IF \E ch \in DOMAIN rotated_channels :
                    rotated_channels[ch].vol.shape # rotated_channels[1].vol.shape
        THEN [err |-> "ValueError", stack |-> NoStack]
        ELSE [err |-> "none",
              stack |-> [stack EXCEPT !.chans =
                            [ch \in DOMAIN rotated_channels |-> rotated_channels[ch].vol]]]

----------------------------------------------------------------------------
(* orientations.json: an insertion-ordered mapping key -> record *)

DEFAULT_VOXEL_SIZE == 5       \* 0.5 um
DefaultTriple == <<DEFAULT_VOXEL_SIZE, DEFAULT_VOXEL_SIZE, DEFAULT_VOXEL_SIZE>>

\* identities are strings, modelled as tuples of characters
ImagePath == <<"d", "/", "a">>        \* Images/d/a.tif
FileName == <<"a", ".", "t", "i", "f">>
OtherKey == <<"d", "/", "a", "b">>    \* the record of another image

\* Python's "s in t" on strings
IsSubstr(s, t) ==
    \E i \in 0..(Len(t) - Len(s)) : SubSeq(t, i + 1, i + Len(s)) = s

\* image_path.split('/')[-1]
RECURSIVE LastComponent(_)
LastComponent(path) ==
    IF \E i \in DOMAIN path : path[i] = "/"
    THEN LastComponent(Tail(path))
    ELSE path

NoImageInfo ==
    [present |-> FALSE, shape |-> <<>>, num_channels |-> 0,
     background_channel |-> -1, voxel_sizes |-> <<>>]
ImageInfo(shape, nch, bg, vs) ==
    [present |-> TRUE, shape |-> shape, num_channels |-> nch,
     background_channel |-> bg, voxel_sizes |-> vs]

\* manual_corrections; background_channel -1 and rotations <<>> stand for a missing key
NoManual == [present |-> FALSE, rotations |-> <<>>, background_channel |-> -1]
Manual(rots, bg) == [present |-> TRUE, rotations |-> rots, background_channel |-> bg]

Record(ii, aa, mc) ==
    [image_info |-> ii, automated_analysis |-> aa, manual_corrections |-> mc]
EmptyRecord == Record(NoImageInfo, "none", NoManual)

NoStore == [exists |-> FALSE, entries |-> <<>>]
StoreOf(es) == [exists |-> TRUE, entries |-> es]

\* position of the entry with exactly this key, 0 when there is none
KeyIndex(entries, key) ==
    IF \E i \in DOMAIN entries : entries[i].key = key
    THEN CHOOSE i \in DOMAIN entries : entries[i].key = key
    ELSE 0

\* position of the first entry whose key contains image_base, 0 when there is none
FirstMatch(entries, image_base) ==
    IF \E i \in DOMAIN entries : IsSubstr(image_base, entries[i].key)
    THEN CHOOSE i \in DOMAIN entries :
            /\ IsSubstr(image_base, entries[i].key)
            /\ \A j \in 1..(i - 1) : ~IsSubstr(image_base, entries[j].key)
    ELSE 0

RECURSIVE SwapTimes(_, _, _)
SwapTimes(perm, axes, k) ==
    IF k = 0 THEN perm
    ELSE SwapTimes(Swap(perm, axes[1], axes[2]), axes, k - 1)

\* lines 171-189: the index permutation accumulated over the request
RECURSIVE current_permutation(_, _)
current_permutation(perm, rotations) ==
    IF rotations = <<>> THEN perm
    ELSE LET axis_name == rotations[1][1]
             degrees == rotations[1][2]
         IN  IF degrees = 0 THEN current_permutation(perm, Tail(rotations))
             ELSE IF degrees \notin {90, 180, 270}
             THEN current_permutation(perm, Tail(rotations))
             ELSE current_permutation(
                      SwapTimes(perm, axis_mapping[axis_name], degrees \div 90),
                      Tail(rotations))

\* line 192
new_voxel_sizes(voxel_sizes, rotations) ==
    LET p == current_permutation(<<1, 2, 3>>, rotations)
    IN  [i \in 1..3 |-> voxel_sizes[p[i]]]

\* the store after update_voxel_sizes_after_rotation, and whether it wrote the file
update_voxel_sizes_after_rotation(st, image_path, rotations) ==
    IF ~st.exists THEN [store |-> st, wrote |-> FALSE]
    ELSE LET i == KeyIndex(st.entries, image_path)
         IN  IF i = 0 THEN [store |-> st, wrote |-> FALSE]
             ELSE LET info == st.entries[i].rec.image_info
                      voxel_sizes == IF info.present /\ info.voxel_sizes # <<>>
                                     THEN info.voxel_sizes ELSE DefaultTriple
                  IN  IF voxel_sizes = DefaultTriple
                      THEN [store |-> st, wrote |-> FALSE]
                      ELSE [store |-> [st EXCEPT
                                 !.entries[i].rec.image_info.voxel_sizes =
                                     new_voxel_sizes(voxel_sizes, rotations)],
                            wrote |-> TRUE]

\* save_to_orientations starting from a new entry instead of the stored one
save_to_orientations_fresh(st, image_path, image_info, automated_analysis) ==
    LET saved == IF st.exists THEN st.entries ELSE <<>>
        i == KeyIndex(saved, image_path)
        rec == [EmptyRecord EXCEPT !.image_info = image_info,
                                   !.automated_analysis = automated_analysis]
    IN  StoreOf(IF i = 0 THEN Append(saved, [key |-> image_path, rec |-> rec])
                ELSE [saved EXCEPT ![i].rec = rec])

\* save_to_orientations without the guard of lines 340-343
save_to_orientations_overwrite(st, image_path, image_info, automated_analysis) ==
    LET saved == IF st.exists THEN st.entries ELSE <<>>
        i == KeyIndex(saved, image_path)
        entry == IF i = 0 THEN EmptyRecord ELSE saved[i].rec
        rec == [entry EXCEPT !.image_info = image_info,
                             !.automated_analysis = automated_analysis]
    IN  StoreOf(IF i = 0 THEN Append(saved, [key |-> image_path, rec |-> rec])
                ELSE [saved EXCEPT ![i].rec = rec])

\* get_image_data.save_to_orientations
save_to_orientations(st, image_path, image_info, automated_analysis) ==
    LET saved == IF st.exists THEN st.entries ELSE <<>>
        i == KeyIndex(saved, image_path)
        entry == IF i = 0 THEN EmptyRecord ELSE saved[i].rec
        existing_image_info == entry.image_info
        info == IF /\ existing_image_info.present
                   /\ existing_image_info.voxel_sizes # <<>>
                   /\ existing_image_info.voxel_sizes # DefaultTriple
                THEN [image_info EXCEPT !.voxel_sizes = existing_image_info.voxel_sizes]
                ELSE image_info
        rec == [entry EXCEPT !.image_info = info,
                             !.automated_analysis = automated_analysis]
    IN  StoreOf(IF i = 0 THEN Append(saved, [key |-> image_path, rec |-> rec])
                ELSE [saved EXCEPT ![i].rec = rec])

----------------------------------------------------------------------------
(* convert_tiff_to_nrrd.py *)

NoNrrd == [st |-> "absent", vol |-> NoVolume, vox |-> <<>>]
\* _make_nrrd_header + nrrd.write: sizes = data.shape, diagonal space directions
Nrrd(data, vx, vy, vz) == [st |-> "full", vol |-> data, vox |-> <<vx, vy, vz>>]

(* TIFF metadata as _extract_voxel_sizes reads it.  A metadata value is absent, *)
(* a number (in units of 0.1 of the file's unit) or text that float() refuses.  *)
(* A resolution tag is absent, not a tuple, or the rational <<num, den>>.       *)
AbsentV == [kind |-> "absent", v |-> 0]
Num(v) == [kind |-> "num", v |-> v]
BadV == [kind |-> "bad", v |-> 0]

NoTag == [kind |-> "absent", num |-> 0, den |-> 0]
ScalarTag == [kind |-> "scalar", num |-> 0, den |-> 0]
Rational(num, den) == [kind |-> "tuple", num |-> num, den |-> den]

NoImageJ == [present |-> FALSE, spacing |-> AbsentV, unit |-> "absent"]
ImageJ(spacing, unit) == [present |-> TRUE, spacing |-> spacing, unit |-> unit]

NoOme == [kind |-> "none", X |-> AbsentV, Y |-> AbsentV, Z |-> AbsentV]
MalformedOme == [kind |-> "malformed", X |-> AbsentV, Y |-> AbsentV, Z |-> AbsentV]
OmePixels(x, y, z) == [kind |-> "pixels", X |-> x, Y |-> y, Z |-> z]

\* an optional value: <<>> is None
None == <<>>
Some(v) == <<v>>

\* lines 50-57: xr[1] / xr[0] when the tag is a tuple with xr[0] > 0
resolution_of(tag) ==
    IF tag.kind = "tuple" /\ tag.num > 0 THEN Some((10 * tag.den) \div tag.num) ELSE None

\* lines 59-63: "if v: v /= 1000.0"
nm_to_um(o) == IF o # None /\ o[1] # 0 THEN Some(o[1] \div 1000) ELSE o

\* lines 41-65, the ImageJ block: what vx, vy, vz are when it is left
imagej_block(tif) ==
    LET none3 == [vx |-> None, vy |-> None, vz |-> None]
        ij == tif.ij
    IN  IF ~ij.present THEN none3
        ELSE IF ij.spacing.kind = "bad" THEN none3
        ELSE LET vz == IF ij.spacing.kind = "num" THEN Some(ij.spacing.v) ELSE None
                 vx == resolution_of(tif.xres)
                 vy == resolution_of(tif.yres)
             IN  IF ij.unit = "nm"
                 THEN [vx |-> nm_to_um(vx), vy |-> nm_to_um(vy), vz |-> nm_to_um(vz)]
                 ELSE [vx |-> vx, vy |-> vy, vz |-> vz]

\* lines 68-82, the OME block: float() of a refused text leaves the block
ome_block(tif, v) ==
    LET ome == tif.ome
    IN  IF v.vx # None \/ ome.kind # "pixels" THEN v
        ELSE IF ome.X.kind = "bad" THEN v
        ELSE LET v1 == IF ome.X.kind = "num" THEN [v EXCEPT !.vx = Some(ome.X.v)] ELSE v
             IN  IF ome.Y.kind = "bad" THEN v1
                 ELSE LET v2 == IF ome.Y.kind = "num"
                                THEN [v1 EXCEPT !.vy = Some(ome.Y.v)] ELSE v1
                      IN  IF ome.Z.kind = "bad" THEN v2
                          ELSE IF ome.Z.kind = "num"
                          THEN [v2 EXCEPT !.vz = Some(ome.Z.v)] ELSE v2

\* lines 84-88
fill_defaults(v) ==
    LET vx == IF v.vx = None THEN DEFAULT_VOXEL_SIZE ELSE v.vx[1]
        vy == IF v.vy = None THEN vx ELSE v.vy[1]
        vz == IF v.vz = None THEN DEFAULT_VOXEL_SIZE ELSE v.vz[1]
    IN  <<vx, vy, vz>>

\* _extract_voxel_sizes of convert_tiff_to_nrrd.py: [vx, vy, vz]
extract_voxel_sizes(stack) == fill_defaults(ome_block(stack.meta, imagej_block(stack.meta)))

\* _extract_voxel_sizes of get_image_data.py: [vz, vy, vx]
extract_voxel_sizes_zyx(stack) ==
    LET v == fill_defaults(ome_block(stack.meta, imagej_block(stack.meta)))
    IN  <<v[3], v[2], v[1]>>

get_bg_channel(st, image_base) ==
    LET i == IF st.exists THEN FirstMatch(st.entries, image_base) ELSE 0
    IN  IF i = 0 THEN 1
        ELSE LET val == st.entries[i].rec
             IN  IF val.manual_corrections.present
                    /\ val.manual_corrections.background_channel # -1
                 THEN val.manual_corrections.background_channel
                 ELSE IF val.image_info.present /\ val.image_info.background_channel # -1
                 THEN val.image_info.background_channel
                 ELSE 1

\* bg_xyz without the transpose to [X, Y, Z]
bg_zyx(stack, bg_channel) ==
    IF stack.ndim = 4 THEN stack.chans[bg_channel + 1] ELSE stack.chans[1]

\* lines 160-177
bg_xyz(stack, bg_channel) ==
    TransposeZYX(IF stack.ndim = 4 THEN stack.chans[bg_channel + 1] ELSE stack.chans[1])

\* sig_xyz without the transpose to [X, Y, Z]
sig_zyx(stack, bg_channel) ==
    LET num_channels == Len(stack.chans)
        sig_idx == IF num_channels = 2 THEN 1 - bg_channel ELSE 0
    IN  IF stack.ndim = 4 THEN stack.chans[sig_idx + 1] ELSE stack.chans[1]

sig_xyz(stack, bg_channel) ==
    LET num_channels == Len(stack.chans)
        sig_idx == IF num_channels = 2 THEN 1 - bg_channel ELSE 0
    IN  TransposeZYX(IF stack.ndim = 4 THEN stack.chans[sig_idx + 1] ELSE stack.chans[1])

\* what convert_and_split(image_base) raises or writes
convert_and_split(file, st, image_base) ==
    LET failed(e) == [err |-> e, bg |-> NoNrrd, sig |-> NoNrrd]
        stack == file.body
        vox == extract_voxel_sizes(stack)
        bg_channel == get_bg_channel(st, image_base)
    IN  IF file.st = "absent" \/ ~IsSubstr(image_base, FileName)
        THEN failed("FileNotFoundError")
        ELSE IF file.st # "full" THEN failed("TiffFileError")
        ELSE IF stack.ndim = 4 /\ bg_channel + 1 \notin DOMAIN stack.chans
        THEN failed("IndexError")
        ELSE IF stack.ndim \notin {3, 4} THEN failed("ValueError")
        ELSE [err |-> "none",
              bg |-> Nrrd(bg_xyz(stack, bg_channel), vox[1], vox[2], vox[3]),
              sig |-> Nrrd(sig_xyz(stack, bg_channel), vox[1], vox[2], vox[3])]

----------------------------------------------------------------------------
(* corrected/<image_base>_alignment_progress.json; a time is the number of *)
(* the run that wrote it                                                   *)

\* read_progress, lines 32-40: the record of a job that has no file yet
BlankProgress ==
    [stages |-> <<>>, current_stage |-> None, started_at |-> None, completed_at |-> None,
     failed_at |-> None, error |-> None]

NoProgress == [exists |-> FALSE, data |-> BlankProgress]

read_progress(file) == IF file.exists THEN file.data ELSE BlankProgress

----------------------------------------------------------------------------
(* The acquired stack and the initial state *)

RawChannel(c) ==
    [chan |-> c, shape |-> RawShape, ax |-> <<1, 2, 3>>, rev |-> <<FALSE, FALSE, FALSE>>]

\* the acquired stack is an ImageJ TIFF: 5 px/um in X, 10/3 px/um in Y, 1.0 um slices
RawTags ==
    [ij |-> ImageJ(Num(10), "micron"), xres |-> Rational(5, 1), yres |-> Rational(10, 3),
     ome |-> NoOme]
RawMeta == <<2, 3, 10>>       \* vx, vy, vz that RawTags stand for

RawStacks ==
    {[ndim |-> 4, chans |-> <<RawChannel(0), RawChannel(1)>>, meta |-> RawTags],
     [ndim |-> 3, chans |-> <<RawChannel(0)>>, meta |-> RawTags]}

\* raw_data.shape and the channel count, lines 400-402 and 431-432
original_shape(stack) ==
    LET s == stack.chans[1].shape
    IN  IF stack.ndim = 4 THEN <<s[1], Len(stack.chans), s[2], s[3]>> ELSE s
num_channels_of(stack) == IF stack.ndim = 4 THEN Len(stack.chans) ELSE 1

InfoOf(stack, vs) == ImageInfo(original_shape(stack), num_channels_of(stack), 1, vs)

InitStores(stack) ==
    {NoStore,
     StoreOf(<<>>),
     StoreOf(<<[key |-> ImagePath, rec |-> Record(InfoOf(stack, DefaultTriple), "a0", NoManual)]>>),
     StoreOf(<<[key |-> ImagePath,
                rec |-> Record(InfoOf(stack, RawMeta), "a0", Manual(<<90, 0, 0>>, 1))]>>),
     StoreOf(<<[key |-> OtherKey, rec |-> Record(InfoOf(stack, <<3, 3, 8>>), "a0", NoManual)],
               [key |-> ImagePath, rec |-> Record(InfoOf(stack, RawMeta), "a0", NoManual)]>>)}

NoCall == [fn |-> "none", args |-> <<>>, before |-> NoStore, ret |-> <<>>]

Fresh == [kind |-> "fresh", axis |-> "", deg |-> 0, n |-> 0]
Mixed == [kind |-> "mixed", axis |-> "", deg |-> 0, n |-> 0]

Init ==
    /\ tiff \in {Full(s) : s \in RawStacks}
    /\ progress = NoProgress
    /\ tmp = Absent
    /\ store \in InitStores(tiff.body)
    /\ bgN = NoNrrd
    /\ sigN = NoNrrd
    /\ backup = Absent
    /\ pc = "idle"
    /\ op = "none"
    /\ req = <<>>
    /\ mem = NoStack
    /\ outcome = "none"
    /\ touched = {}
    /\ pre = [tiff |-> tiff, store |-> store, bgN |-> bgN, sigN |-> sigN]
    /\ hist = Fresh
    /\ nops = 0
    /\ io = NoCall

----------------------------------------------------------------------------
(* hist: what has run since Init *)

\* the nonzero entries of a request
RECURSIVE NonZero(_)
NonZero(r) ==
    IF r = <<>> THEN <<>>
    ELSE IF r[1][2] = 0 THEN NonZero(Tail(r)) ELSE <<r[1]>> \o NonZero(Tail(r))

IsSingle(r) == Len(NonZero(r)) = 1 /\ NonZero(r)[1][2] \in {90, 180, 270}

AfterRotation(h, r) ==
    IF h.kind = "mixed" THEN Mixed
    ELSE IF IsSingle(r) /\ h.kind = "fresh"
    THEN [kind |-> "rep", axis |-> NonZero(r)[1][1], deg |-> NonZero(r)[1][2], n |-> 1]
    ELSE IF /\ IsSingle(r) /\ h.kind = "rep" /\ h.n < MaxReps
            /\ h.axis = NonZero(r)[1][1] /\ h.deg = NonZero(r)[1][2]
    THEN [h EXCEPT !.n = h.n + 1]
    ELSE [kind |-> "rots", axis |-> "", deg |-> 0, n |-> 0]

----------------------------------------------------------------------------
(* apply_rotation.py main, step by step; the process can be killed between *)
(* any two steps.  tmp is the file at the tmp_path of the current run.     *)

Start(program) ==
    /\ pc = "idle"
    /\ nops < MaxOps
    /\ nops' = nops + 1
    /\ op' = program
    /\ pre' = [tiff |-> tiff, store |-> store, bgN |-> bgN, sigN |-> sigN]

\* lines 44-99: load the stack and rotate it in memory
RotateBegin(rotations) ==
    /\ Start("rotate")
    /\ tiff.st = "full"
    /\ tmp' = Absent
    /\ req' = rotations
    /\ touched' = {}
    /\ LET r == RotateStack(tiff.body, rotations)
       IN  IF r.err # "none"
           THEN /\ pc' = "idle"
                /\ outcome' = r.err
                /\ mem' = NoStack
           ELSE /\ pc' = "mkstemp"
                /\ outcome' = "running"
                /\ mem' = r.stack
    /\ UNCHANGED <<progress, tiff, store, bgN, sigN, backup, hist, io>>

\* line 125
Mkstemp ==
    /\ pc = "mkstemp"
    /\ tmp' = Empty
    /\ touched' = touched \cup {"tmp"}
    /\ pc' = "imwrite"
    /\ UNCHANGED <<progress, tiff, store, bgN, sigN, backup, op, req, mem, outcome, pre, hist, nops, io>>

\* imwrite writing straight to the image file instead of tmp_path
ImwriteChunkInPlace ==
    /\ pc = "imwrite"
    /\ tmp.st = "empty"
    /\ tiff' = Partial
    /\ UNCHANGED <<progress, tmp, store, bgN, sigN, backup, pc, op, req, mem, outcome, touched,
                   pre, hist, nops, io>>

\* line 128, part of the bytes are on disk
ImwriteChunk ==
    /\ pc = "imwrite"
    /\ tmp.st = "empty"
    /\ tmp' = Partial
    /\ UNCHANGED <<progress, tiff, store, bgN, sigN, backup, pc, op, req, mem, outcome, touched,
                   pre, hist, nops, io>>

\* line 128 returns
ImwriteDone ==
    /\ pc = "imwrite"
    /\ tmp' = Full(mem)
    /\ pc' = "replace"
    /\ UNCHANGED <<progress, tiff, store, bgN, sigN, backup, op, req, mem, outcome, touched,
                   pre, hist, nops, io>>

\* ImwriteFails without the unlink of lines 133-134
ImwriteFailsKeepsTmp ==
    /\ pc = "imwrite"
    /\ pc' = "idle"
    /\ outcome' = "OSError"
    /\ mem' = NoStack
    /\ UNCHANGED <<progress, tiff, tmp, store, bgN, sigN, backup, op, req, touched, pre, hist, nops, io>>

\* line 128 raises: lines 131-135
ImwriteFails ==
    /\ pc = "imwrite"
    /\ tmp' = Absent
    /\ pc' = "idle"
    /\ outcome' = "OSError"
    /\ mem' = NoStack
    /\ UNCHANGED <<progress, tiff, store, bgN, sigN, backup, op, req, touched, pre, hist, nops, io>>

\* lines 130-135: os.replace raises, the temporary file is unlinked, the run fails
ReplaceFails ==
    /\ pc = "replace"
    /\ tmp' = Absent
    /\ pc' = "idle"
    /\ outcome' = "OSError"
    /\ mem' = NoStack
    /\ UNCHANGED <<progress, tiff, store, bgN, sigN, backup, op, req, touched, pre, hist, nops, io>>

\* line 130
Replace ==
    /\ pc = "replace"
    /\ tiff' = tmp
    /\ tmp' = Absent
    /\ touched' = touched \cup {"tiff"}
    /\ pc' = "update"
    /\ UNCHANGED <<progress, store, bgN, sigN, backup, op, req, mem, outcome, pre, hist, nops, io>>

\* line 138
UpdateVoxelSizes ==
    /\ pc = "update"
    /\ LET u == update_voxel_sizes_after_rotation(store, ImagePath, req)
       IN  /\ store' = u.store
           /\ touched' = IF u.wrote THEN touched \cup {"orientations"} ELSE touched
    /\ pc' = "idle"
    /\ outcome' = "ok"
    /\ mem' = NoStack
    /\ UNCHANGED <<progress, tiff, tmp, bgN, sigN, backup, op, req, pre, hist, nops, io>>

\* the process is killed between two steps
Kill ==
    /\ pc # "idle"
    /\ pc' = "idle"
    /\ outcome' = "killed"
    /\ mem' = NoStack
    /\ UNCHANGED <<progress, tiff, tmp, store, bgN, sigN, backup, op, req, touched, pre, hist, nops, io>>

----------------------------------------------------------------------------
(* convert_tiff_to_nrrd.py main with one image, reset_rotation.py main *)

BuildArgs == {LastComponent(ImagePath), ImagePath}

\* Build with the channel files opened for writing before the stack is looked at
BuildTruncates(image_base) ==
    /\ Start("build")
    /\ LET c == convert_and_split(tiff, store, image_base)
       IN  /\ outcome' = IF c.err # "none" THEN c.err ELSE "ok"
           /\ bgN' = c.bg
           /\ sigN' = c.sig
           /\ touched' = IF c.err # "none" THEN {} ELSE {"background", "signal"}
    /\ io' = [fn |-> "convert_and_split", args |-> <<image_base>>,
              before |-> store, ret |-> <<>>]
    /\ UNCHANGED <<progress, tiff, tmp, store, backup, pc, req, mem, hist>>

Build(image_base) ==
    /\ Start("build")
    /\ LET c == convert_and_split(tiff, store, image_base)
       IN  IF c.err # "none"
           THEN /\ outcome' = c.err
                /\ touched' = {}
                /\ UNCHANGED <<bgN, sigN>>
           ELSE /\ outcome' = "ok"
                /\ bgN' = c.bg
                /\ sigN' = c.sig
                /\ touched' = {"background", "signal"}
    /\ io' = [fn |-> "convert_and_split", args |-> <<image_base>>,
              before |-> store, ret |-> <<>>]
    /\ UNCHANGED <<progress, tiff, tmp, store, backup, pc, req, mem, hist>>

\* reset_rotation.py, lines 33-45
clear_rotations(st, image_base) ==
    LET i == FirstMatch(st.entries, image_base)
    IN  IF i = 0 THEN st
        ELSE [st EXCEPT !.entries[i].rec.manual_corrections =
                 [@ EXCEPT !.present = TRUE, !.rotations = <<0, 0, 0>>]]

Reset(image_base) ==
    /\ Start("reset")
    /\ LET c == convert_and_split(tiff, store, image_base)
       IN  IF c.err # "none"
           THEN /\ outcome' = c.err
                /\ io' = [fn |-> "reset_rotation", args |-> <<image_base>>, before |-> store,
                          ret |-> <<c.err>>]
                /\ touched' = {}
                /\ UNCHANGED <<bgN, sigN, store>>
           ELSE /\ outcome' = "ok"
                /\ io' = [fn |-> "reset_rotation", args |-> <<image_base>>, before |-> store,
                          ret |-> <<"ok">>]
                /\ bgN' = c.bg
                /\ sigN' = c.sig
                /\ store' = IF store.exists THEN clear_rotations(store, image_base) ELSE store
                /\ touched' = {"background", "signal"}
                              \cup (IF store.exists THEN {"orientations"} ELSE {})
    /\ UNCHANGED <<progress, tiff, tmp, backup, pc, req, mem, hist>>

----------------------------------------------------------------------------
(* get_image_data.py main, as far as it reads and writes files *)

AnalyzeBg == {0, 1}           \* the bg_channel argument

\* lines 376-417: both channel files are there and parse
nrrd_present == sigN.st # "absent" /\ bgN.st # "absent"
loaded_from_nrrd == nrrd_present /\ sigN.st = "full" /\ bgN.st = "full" /\ tiff.st # "partial"

\* lines 462-464
sample_vox_from_tiff(stack) ==
    LET tiff_vox == extract_voxel_sizes_zyx(stack)
    IN  <<tiff_vox[3], tiff_vox[2], tiff_vox[1]>>

Analyze(bg_channel) ==
    /\ Start("analyze")
    /\ IF loaded_from_nrrd
       THEN /\ outcome' = "ok"
            /\ store' = save_to_orientations(store, ImagePath,
                            IF tiff.st = "full"
                            THEN ImageInfo(original_shape(tiff.body), num_channels_of(tiff.body),
                                           bg_channel, bgN.vox)
                            ELSE ImageInfo(bgN.vol.shape, 2, bg_channel, bgN.vox),
                            "a1")
            /\ touched' = {"orientations"}
            /\ UNCHANGED <<bgN, sigN, backup>>
       ELSE IF tiff.st # "full"
       THEN /\ outcome' = IF tiff.st = "absent" THEN "Image not found" ELSE "TiffFileError"
            /\ bgN' = IF nrrd_present THEN NoNrrd ELSE bgN
            /\ sigN' = IF nrrd_present THEN NoNrrd ELSE sigN
            /\ touched' = IF nrrd_present THEN {"background", "signal"} ELSE {}
            /\ UNCHANGED <<store, backup>>
       ELSE LET stack == tiff.body
                vox == sample_vox_from_tiff(stack)
            IN  /\ backup' = IF backup.st = "absent" THEN tiff ELSE backup
                /\ IF stack.ndim = 4 /\ bg_channel + 1 \notin DOMAIN stack.chans
                   THEN /\ outcome' = "IndexError"
                        /\ bgN' = IF nrrd_present THEN NoNrrd ELSE bgN
                        /\ sigN' = IF nrrd_present THEN NoNrrd ELSE sigN
                        /\ touched' = (IF nrrd_present THEN {"background", "signal"} ELSE {})
                                      \cup (IF backup.st = "absent" THEN {"backup"} ELSE {})
                        /\ UNCHANGED store
                   ELSE /\ outcome' = "ok"
                        /\ bgN' = Nrrd(TransposeZYX(IF stack.ndim = 4
                                                    THEN stack.chans[bg_channel + 1]
                                                    ELSE stack.chans[1]),
                                       vox[1], vox[2], vox[3])
                        /\ sigN' = IF stack.ndim = 4
                                   THEN Nrrd(TransposeZYX(stack.chans[(1 - bg_channel) + 1]),
                                             vox[1], vox[2], vox[3])
                                   ELSE IF nrrd_present THEN NoNrrd ELSE sigN
                        /\ store' = save_to_orientations(store, ImagePath,
                                        ImageInfo(original_shape(stack), num_channels_of(stack),
                                                  bg_channel, vox),
                                        "a1")
                        /\ touched' = {"background", "orientations"}
                                      \cup (IF stack.ndim = 4 \/ nrrd_present
                                            THEN {"signal"} ELSE {})
                                      \cup (IF backup.st = "absent" THEN {"backup"} ELSE {})
    /\ UNCHANGED <<progress, tiff, tmp, pc, req, mem, hist, io>>

----------------------------------------------------------------------------
(* Spec: one process at a time, at most MaxOps of them *)

Next ==
    \/ \E r \in Requests : RotateBegin(r)
    \/ Mkstemp
    \/ ImwriteChunk
    \/ ImwriteDone
    \/ ImwriteFails
    \/ ReplaceFails
    \/ Replace
    \/ UpdateVoxelSizes
    \/ Kill
    \/ \E b \in BuildArgs : Build(b)
    \/ \E b \in BuildArgs : Reset(b)
    \/ \E c \in AnalyzeBg : Analyze(c)

Spec == Init /\ [][Next]_vars

----------------------------------------------------------------------------
(* SpecSeq: rotation requests run to completion one after the other; pre   *)
(* keeps the initial files.                                                *)

Rotate(rotations) ==
    /\ pc = "idle"
    /\ tiff.st = "full"
    /\ op' = "rotate"
    /\ LET r == RotateStack(tiff.body, rotations)
       IN  IF r.err # "none"
           THEN /\ outcome' = r.err
                /\ UNCHANGED <<tiff, store, hist, io>>
           ELSE /\ outcome' = "ok"
                /\ tiff' = Full(r.stack)
                /\ store' = update_voxel_sizes_after_rotation(store, ImagePath, rotations).store
                /\ hist' = AfterRotation(hist, rotations)
    /\ UNCHANGED <<progress, tmp, bgN, sigN, backup, pc, req, mem, touched, pre, nops, io>>

NextSeq == \E r \in Requests : Rotate(r)

SpecSeq == Init /\ [][NextSeq]_vars

----------------------------------------------------------------------------
(* SpecSave: save_to_orientations called again and again on a store that   *)
(* already holds records; pre keeps the initial store, io the last call.   *)

\* a record that also carries the "approved" key
Approved(rec) ==
    [image_info |-> rec.image_info, automated_analysis |-> rec.automated_analysis,
     manual_corrections |-> rec.manual_corrections, approved |-> TRUE]

MeasuredTriple == <<4, 4, 20>>      \* a spacing read from the volume at hand

SaveStores(stack) ==
    InitStores(stack) \cup
    {StoreOf(<<[key |-> ImagePath,
                rec |-> Approved(Record(InfoOf(stack, RawMeta), "a0",
                                        Manual(<<0, 90, 0>>, 0)))]>>),
     StoreOf(<<[key |-> OtherKey,
                rec |-> Approved(Record(InfoOf(stack, <<3, 3, 8>>), "a0",
                                        Manual(<<0, 0, 90>>, 1)))],
               [key |-> ImagePath,
                rec |-> Approved(Record(InfoOf(stack, DefaultTriple), "a0",
                                        Manual(<<90, 0, 0>>, 1)))]>>),
     StoreOf(<<[key |-> ImagePath,
                rec |-> Record(NoImageInfo, "none", Manual(<<90, 0, 0>>, 1))]>>)}

InitSave ==
    /\ tiff \in {Full(s) : s \in RawStacks}
    /\ progress = NoProgress
    /\ tmp = Absent
    /\ store \in SaveStores(tiff.body)
    /\ bgN = NoNrrd
    /\ sigN = NoNrrd
    /\ backup = Absent
    /\ pc = "idle"
    /\ op = "none"
    /\ req = <<>>
    /\ mem = NoStack
    /\ outcome = "none"
    /\ touched = {}
    /\ pre = [tiff |-> tiff, store |-> store, bgN |-> bgN, sigN |-> sigN]
    /\ hist = Fresh
    /\ nops = 0
    /\ io = NoCall

SaveIdentities == {ImagePath, LastComponent(ImagePath)}
SaveInfos(stack) ==
    {ImageInfo(original_shape(stack), num_channels_of(stack), bg, vs) :
        bg \in {0, 1}, vs \in {DefaultTriple, MeasuredTriple}}
SaveAnalyses == {"a1", "a2"}

Save(image_path, image_info, automated_analysis) ==
    /\ pc = "idle"
    /\ op' = "save"
    /\ store' = save_to_orientations(store, image_path, image_info, automated_analysis)
    /\ io' = [fn |-> "save_to_orientations",
              args |-> <<image_path, image_info, automated_analysis>>,
              before |-> store,
              ret |-> <<>>]
    /\ outcome' = "ok"
    /\ touched' = {"orientations"}
    /\ UNCHANGED <<progress, tiff, tmp, bgN, sigN, backup, pc, req, mem, pre, hist, nops>>

NextSave ==
    \E id \in SaveIdentities, info \in SaveInfos(tiff.body), aa \in SaveAnalyses :
        Save(id, info, aa)

SpecSave == InitSave /\ [][NextSave]_vars

----------------------------------------------------------------------------
(* SpecBuild: convert_tiff_to_nrrd.py run on the stacks and stores it can   *)
(* meet: no file, ranks 2 to 5, two and three channels, records with and   *)
(* without a background choice, channel files present or not.              *)

BuildStacks ==
    RawStacks \cup
    {[ndim |-> 4, chans |-> <<RawChannel(0), RawChannel(1), RawChannel(2)>>, meta |-> RawTags],
     [ndim |-> 2, chans |-> <<>>, meta |-> RawTags],
     [ndim |-> 5, chans |-> <<>>, meta |-> RawTags]}

StoredInfo(bg) == ImageInfo(<<40, 2, 512, 512>>, 2, bg, RawMeta)
OneRecord(key, rec) == StoreOf(<<[key |-> key, rec |-> rec]>>)

BuildStores ==
    {NoStore,
     StoreOf(<<>>),
     OneRecord(ImagePath, EmptyRecord),
     OneRecord(ImagePath, Record(StoredInfo(0), "a0", NoManual)),
     OneRecord(ImagePath, Record(StoredInfo(1), "a0", Manual(<<0, 0, 0>>, 0))),
     OneRecord(ImagePath, Record(StoredInfo(0), "a0", Manual(<<0, 0, 0>>, -1))),
     OneRecord(OtherKey, Record(StoredInfo(0), "a0", NoManual)),
     StoreOf(<<[key |-> OtherKey, rec |-> Record(StoredInfo(0), "a0", NoManual)],
               [key |-> ImagePath, rec |-> Record(StoredInfo(1), "a0", NoManual)]>>),
     StoreOf(<<[key |-> ImagePath, rec |-> Record(StoredInfo(0), "a0", NoManual)],
               [key |-> OtherKey, rec |-> Record(StoredInfo(1), "a0", NoManual)]>>)}

\* channel files left by an earlier build of the acquired two-channel stack
StaleBg == Nrrd(TransposeZYX(RawChannel(1)), RawMeta[1], RawMeta[2], RawMeta[3])
StaleSig == Nrrd(TransposeZYX(RawChannel(0)), RawMeta[1], RawMeta[2], RawMeta[3])

InitBuild ==
    /\ tiff \in {Absent} \cup {Full(s) : s \in BuildStacks}
    /\ progress = NoProgress
    /\ tmp = Absent
    /\ store \in BuildStores
    /\ bgN \in {NoNrrd, StaleBg}
    /\ sigN = IF bgN = NoNrrd THEN NoNrrd ELSE StaleSig
    /\ backup = Absent
    /\ pc = "idle"
    /\ op = "none"
    /\ req = <<>>
    /\ mem = NoStack
    /\ outcome = "none"
    /\ touched = {}
    /\ pre = [tiff |-> tiff, store |-> store, bgN |-> bgN, sigN |-> sigN]
    /\ hist = Fresh
    /\ nops = 0
    /\ io = NoCall

NextBuild == \E b \in BuildArgs : Build(b)

SpecBuild == InitBuild /\ [][NextBuild]_vars

----------------------------------------------------------------------------
(* SpecMeta: both _extract_voxel_sizes functions applied to TIFFs with      *)
(* present, missing and malformed metadata.                                *)

Spacings == {AbsentV, Num(10), Num(0), Num(-10), BadV, Num(10000)}
Units == {"absent", "micron", "nm"}
XTags == {NoTag, ScalarTag, Rational(5, 1), Rational(0, 1), Rational(1, 0), Rational(1, 200)}
YTags == {NoTag, Rational(10, 3), Rational(1, 300)}
OmeX == {AbsentV, Num(4), Num(0), BadV}
OmeY == {AbsentV, Num(4), BadV}
OmeZ == {AbsentV, Num(20), BadV}

\* the metadata values chosen divide without remainder, in um and in nm
Exact(tif) ==
    LET vals == (IF tif.ij.spacing.kind = "num" THEN {tif.ij.spacing.v} ELSE {})
                \cup {(10 * t.den) \div t.num : t \in {u \in {tif.xres, tif.yres} :
                                                           u.kind = "tuple" /\ u.num > 0}}
    IN  /\ \A t \in {tif.xres, tif.yres} :
              (t.kind = "tuple" /\ t.num > 0) => (10 * t.den) % t.num = 0
        /\ (tif.ij.present /\ tif.ij.unit = "nm") => \A v \in vals : v % 1000 = 0

TiffTags ==
    {tif \in [ij : {NoImageJ} \cup {ImageJ(sp, u) : sp \in Spacings, u \in Units},
              xres : XTags,
              yres : YTags,
              ome : {NoOme, MalformedOme}
                    \cup {OmePixels(x, y, z) : x \in OmeX, y \in OmeY, z \in OmeZ}] :
        Exact(tif)}

InitMeta ==
    /\ tiff \in {Full([ndim |-> 3, chans |-> <<RawChannel(0)>>, meta |-> t]) : t \in TiffTags}
    /\ progress = NoProgress
    /\ tmp = Absent
    /\ store = NoStore
    /\ bgN = NoNrrd
    /\ sigN = NoNrrd
    /\ backup = Absent
    /\ pc = "idle"
    /\ op = "none"
    /\ req = <<>>
    /\ mem = NoStack
    /\ outcome = "none"
    /\ touched = {}
    /\ pre = [tiff |-> tiff, store |-> store, bgN |-> bgN, sigN |-> sigN]
    /\ hist = Fresh
    /\ nops = 0
    /\ io = NoCall

\* convert_tiff_to_nrrd._extract_voxel_sizes(tif)
ExtractXYZ ==
    /\ tiff.st = "full"
    /\ io' = [fn |-> "extract_xyz", args |-> <<tiff.body.meta>>, before |-> NoStore,
              ret |-> extract_voxel_sizes(tiff.body)]
    /\ UNCHANGED <<progress, tiff, tmp, store, bgN, sigN, backup, pc, op, req, mem, outcome, touched,
                   pre, hist, nops>>

\* get_image_data._extract_voxel_sizes(tif)
ExtractZYX ==
    /\ tiff.st = "full"
    /\ io' = [fn |-> "extract_zyx", args |-> <<tiff.body.meta>>, before |-> NoStore,
              ret |-> extract_voxel_sizes_zyx(tiff.body)]
    /\ UNCHANGED <<progress, tiff, tmp, store, bgN, sigN, backup, pc, op, req, mem, outcome, touched,
                   pre, hist, nops>>

NextMeta == ExtractXYZ \/ ExtractZYX

SpecMeta == InitMeta /\ [][NextMeta]_vars

----------------------------------------------------------------------------
(* SpecRecover: get_image_data.py run where the channel files are missing, *)
(* left by an earlier build, or cut short by a killed writer.              *)

CorruptNrrd == [st |-> "partial", vol |-> NoVolume, vox |-> <<>>]

\* channel files an earlier build of this stack left (background channel 1)
BuiltBg(stack) == convert_and_split(Full(stack), NoStore, LastComponent(ImagePath)).bg
BuiltSig(stack) == convert_and_split(Full(stack), NoStore, LastComponent(ImagePath)).sig

InitRecover ==
    /\ tiff \in {Full(s) : s \in RawStacks}
    /\ progress = NoProgress
    /\ tmp = Absent
    /\ store \in InitStores(tiff.body)
    /\ bgN \in {NoNrrd, BuiltBg(tiff.body), CorruptNrrd}
    /\ sigN \in {NoNrrd, BuiltSig(tiff.body), CorruptNrrd}
    /\ backup = Absent
    /\ pc = "idle"
    /\ op = "none"
    /\ req = <<>>
    /\ mem = NoStack
    /\ outcome = "none"
    /\ touched = {}
    /\ pre = [tiff |-> tiff, store |-> store, bgN |-> bgN, sigN |-> sigN]
    /\ hist = Fresh
    /\ nops = 0
    /\ io = NoCall

NextRecover == \E c \in AnalyzeBg : Analyze(c)

SpecRecover == InitRecover /\ [][NextRecover]_vars

----------------------------------------------------------------------------
(* SpecAxes: get_image_data.analyze_projections.  The three process_axis   *)
(* calls run in worker processes; as_completed hands their results over in *)
(* the order in which they finish.                                         *)

Axes == 0..2
Coords == {0, 1}                \* the analysed volume has two samples along each axis
Voxels == Coords \X Coords \X Coords
Volumes == [Voxels -> 0..2]

RECURSIVE SumOver(_, _)
SumOver(data, S) ==
    IF S = {} THEN 0
    ELSE LET x == CHOOSE x \in S : TRUE
         IN  data[x] + SumOver(data, S \ {x})

RECURSIVE MaxOver(_, _)
MaxOver(data, S) ==
    IF S = {} THEN 0
    ELSE LET x == CHOOSE x \in S : TRUE
             rest == MaxOver(data, S \ {x})
         IN  IF data[x] > rest THEN data[x] ELSE rest

\* line 149 on values 0..2: the voxels above np.percentile(data[data > 0], 75), or above
\* np.mean(data) = 0 when no voxel is positive.  The percentile lies below 2 exactly
\* when the sorted positive value at index floor(0.75 * (n - 1)) is 1.
above_threshold(data) ==
    LET positive == {p \in Voxels : data[p] > 0}
        n == Cardinality(positive)
        ones == Cardinality({p \in Voxels : data[p] = 1})
    IN  IF n = 0 THEN {}
        ELSE IF (3 * (n - 1)) \div 4 < ones THEN {p \in Voxels : data[p] = 2}
        ELSE {}

axes_names == <<"X (Left-Right)", "Y (Anterior-Posterior)", "Z (Dorsal-Ventral)">>

\* the voxels of the line along axis through q (q[axis + 1] is ignored)
Line(q, axis) == {p \in Voxels : \A i \in 1..3 : i # axis + 1 => p[i] = q[i]}
\* the voxels of the slice at position c of axis
Slice(c, axis) == {p \in Voxels : p[axis + 1] = c}

\* process_axis; a profile of two samples has no interior sample, so find_peaks
\* returns no peak
process_axis(data, axis) ==
    LET bright == above_threshold(data)
    IN  [axis |-> axis,
         proj_2d |-> [q \in Slice(0, axis) |-> MaxOver(data, Line(q, axis))],
         proj_1d |-> [c \in Coords |->
                        SumOver(data, Slice(c, axis) \cap bright)],
         peaks |-> [num_peaks |-> 0, axis_name |-> axes_names[axis + 1]]]

\* d[key] = value on a dict
Put(d, key, value) == [k \in DOMAIN d \cup {key} |-> IF k = key THEN value ELSE d[k]]
EmptyDict == [k \in {} |-> 0]

InitAxes ==
    /\ tiff = Absent
    /\ progress = NoProgress
    /\ tmp = Absent
    /\ store = NoStore
    /\ bgN = NoNrrd
    /\ sigN = NoNrrd
    /\ backup = Absent
    /\ pc = "as_completed"
    /\ op = "analyze"
    /\ req = <<>>
    /\ mem = NoStack
    /\ outcome = "running"
    /\ touched = {}
    /\ pre = [tiff |-> Absent, store |-> NoStore, bgN |-> NoNrrd, sigN |-> NoNrrd]
    /\ hist = Fresh
    /\ nops = 1
    /\ \E data \in Volumes :
          io = [fn |-> "analyze_projections", args |-> <<data>>, before |-> NoStore,
                ret |-> [order |-> <<>>, projections_2d |-> EmptyDict,
                         projections_1d |-> EmptyDict, peaks_data |-> EmptyDict]]

\* the results filed under the position at which they came in
FutureDoneByArrival(axis) ==
    /\ pc = "as_completed"
    /\ \A i \in DOMAIN io.ret.order : io.ret.order[i] # axis
    /\ LET r == process_axis(io.args[1], axis)
           k == Len(io.ret.order)
       IN  io' = [io EXCEPT !.ret =
                     [order |-> Append(@.order, axis),
                      projections_2d |-> Put(@.projections_2d, k, r.proj_2d),
                      projections_1d |-> Put(@.projections_1d, k, r.proj_1d),
                      peaks_data |-> Put(@.peaks_data, k, r.peaks)]]
    /\ UNCHANGED <<progress, tiff, tmp, store, bgN, sigN, backup, pc, op, req, mem, outcome, touched,
                   pre, hist, nops>>

\* lines 160-163: the next future to finish is the one for axis
FutureDone(axis) ==
    /\ pc = "as_completed"
    /\ \A i \in DOMAIN io.ret.order : io.ret.order[i] # axis
    /\ LET r == process_axis(io.args[1], axis)
       IN  io' = [io EXCEPT !.ret =
                     [order |-> Append(@.order, r.axis),
                      projections_2d |-> Put(@.projections_2d, r.axis, r.proj_2d),
                      projections_1d |-> Put(@.projections_1d, r.axis, r.proj_1d),
                      peaks_data |-> Put(@.peaks_data, r.axis, r.peaks)]]
    /\ UNCHANGED <<progress, tiff, tmp, store, bgN, sigN, backup, pc, op, req, mem, outcome, touched,
                   pre, hist, nops>>

\* line 165
AnalyzeReturn ==
    /\ pc = "as_completed"
    /\ Len(io.ret.order) = 3
    /\ pc' = "idle"
    /\ outcome' = "ok"
    /\ UNCHANGED <<progress, tiff, tmp, store, bgN, sigN, backup, op, req, mem, touched, pre, hist,
                   nops, io>>

NextAxes == (\E axis \in Axes : FutureDone(axis)) \/ AnalyzeReturn

SpecAxes == InitAxes /\ [][NextAxes]_vars

----------------------------------------------------------------------------
(* SpecOrient: get_image_data.check_orientation as a function of the       *)
(* sample's peak counts and filtered profiles, the template key and the    *)
(* loaded template (given by what analyze_projections returns for it: its  *)
(* peak counts and its filtered Z profile).  A finding is the sequence of  *)
(* the words of its text.                                                  *)

JRC2018U_template_lps ==
    <<"J","R","C","2","0","1","8","U","_","t","e","m","p","l","a","t","e","_","l","p","s">>
JRCVNC2018U_template ==
    <<"J","R","C","V","N","C","2","0","1","8","U","_","t","e","m","p","l","a","t","e">>
TemplateKeys == {JRC2018U_template_lps, JRCVNC2018U_template}

startswith(s, prefix) == Len(s) >= Len(prefix) /\ SubSeq(s, 1, Len(prefix)) = prefix
BrainPrefix == <<"J","R","C","2","0","1","8","U">>

RECURSIVE SeqSum(_)
SeqSum(q) == IF q = <<>> THEN 0 ELSE Head(q) + SeqSum(Tail(q))
Reverse(q) == [i \in 1..Len(q) |-> q[Len(q) + 1 - i]]
Dot(a, b) == SeqSum([i \in 1..Len(a) |-> a[i] * b[i]])

TemplateNotLoaded == <<"Template", "not", "loaded">>
TooManyPeaks(axis, s_peaks, t_peaks) ==
    <<"Axis", ToString(axis) \o ":", "too", "many", "peaks", "(" \o ToString(s_peaks), "vs",
      "template", ToString(t_peaks) \o ")", "-", "possible", "axis", "swap">>
TooFewPeaks(axis, s_peaks, t_peaks) ==
    <<"Axis", ToString(axis) \o ":", "too", "few", "peaks", "(" \o ToString(s_peaks), "vs",
      "template", ToString(t_peaks) \o ")", "-", "possible", "clipping", "or", "wrong",
      "template">>
YFlipSuggested ==
    <<"180\\u00b0", "Y-axis", "rotation", "suggested", "(anterior-posterior", "flip)">>
XAsymmetric ==
    <<"X-axis", "highly", "asymmetric", "-", "possible", "90\\u00b0", "rotation", "needed">>
ZFlipSuggested ==
    <<"Z-axis", "(dorsal-ventral)", "profile", "appears", "flipped", "vs", "template", "-",
      "180\\u00b0", "X-axis", "rotation", "suggested">>

\* lines 183-188 with the comparison at the boundary itself
peak_ratio_inclusive(axis, s_peaks, t_peaks) ==
    IF t_peaks > 0
    THEN IF s_peaks >= 2 * t_peaks THEN <<TooManyPeaks(axis, s_peaks, t_peaks)>>
         ELSE IF 10 * s_peaks <= 3 * t_peaks THEN <<TooFewPeaks(axis, s_peaks, t_peaks)>>
         ELSE <<>>
    ELSE <<>>

\* lines 183-188: ratio = s_peaks / t_peaks; ratio > 2.0, elif ratio < 0.3
peak_ratio(axis, s_peaks, t_peaks) ==
    IF t_peaks > 0
    THEN IF s_peaks > 2 * t_peaks THEN <<TooManyPeaks(axis, s_peaks, t_peaks)>>
         ELSE IF 10 * s_peaks < 3 * t_peaks THEN <<TooFewPeaks(axis, s_peaks, t_peaks)>>
         ELSE <<>>
    ELSE <<>>

\* the halves of a profile, split at len // 2
FirstHalf(proj) == SeqSum(SubSeq(proj, 1, Len(proj) \div 2))
SecondHalf(proj) == SeqSum(SubSeq(proj, Len(proj) \div 2 + 1, Len(proj)))

\* lines 190-199 with asymmetry <= -0.15
y_asymmetry_inclusive(template_key, y_proj) ==
    LET front_half == FirstHalf(y_proj)
        back_half == SecondHalf(y_proj)
        total == front_half + back_half
    IN  IF startswith(template_key, BrainPrefix) /\ total > 0
           /\ 100 * (front_half - back_half) <= -15 * total
        THEN <<YFlipSuggested>> ELSE <<>>

\* lines 190-199: (front_half - back_half) / total < -0.15
y_asymmetry(template_key, y_proj) ==
    LET front_half == FirstHalf(y_proj)
        back_half == SecondHalf(y_proj)
        total == front_half + back_half
    IN  IF startswith(template_key, BrainPrefix) /\ total > 0
           /\ 100 * (front_half - back_half) < -15 * total
        THEN <<YFlipSuggested>> ELSE <<>>

\* lines 201-210: abs(left_half - right_half) / total > 0.3
x_asymmetry(template_key, x_proj) ==
    LET left_half == FirstHalf(x_proj)
        right_half == SecondHalf(x_proj)
        total == left_half + right_half
        diff == IF left_half >= right_half THEN left_half - right_half
                ELSE right_half - left_half
    IN  IF startswith(template_key, BrainPrefix) /\ total > 0 /\ 10 * diff > 3 * total
        THEN <<XAsymmetric>> ELSE <<>>

\* zs - np.mean(zs); the profiles of the model have an integer mean
Centred(z) == [i \in 1..Len(z) |-> z[i] - SeqSum(z) \div Len(z)]

\* lines 215-233; the profiles longer than 10 samples all have the same length, on
\* which np.interp returns the samples themselves.  corr_flipped > corr_normal + 0.2
\* is (flipped - normal) / denom > 1/5 with denom the root of the product of the
\* squared norms
z_flip(template_key, z_sample, z_template) ==
    IF startswith(template_key, BrainPrefix) /\ Len(z_sample) > 10 /\ Len(z_template) > 10
    THEN LET zs_n == Centred(z_sample)
             zt_n == Centred(z_template)
             denom2 == Dot(zs_n, zs_n) * Dot(zt_n, zt_n)
             d == Dot(zs_n, Reverse(zt_n)) - Dot(zs_n, zt_n)
         IN  IF denom2 > 0 /\ d > 0 /\ 25 * d * d > denom2
             THEN <<ZFlipSuggested>> ELSE <<>>
    ELSE <<>>

\* 'pattern in change' on the words of the two texts
Mentions(change, pattern) ==
    \E i \in 0..(Len(change) - Len(pattern)) :
        SubSeq(change, i + 1, i + Len(pattern)) = pattern
AnyMentions(changes, pattern) == \E i \in DOMAIN changes : Mentions(changes[i], pattern)

\* lines 235-242 with every finding that names a rotation asking for z = 90
suggested_rotations_loose(changes) ==
    [x |-> IF AnyMentions(changes, <<"180\\u00b0", "X-axis">>) THEN 180 ELSE 0,
     y |-> IF AnyMentions(changes, <<"180\\u00b0", "Y-axis">>) THEN 180 ELSE 0,
     z |-> IF AnyMentions(changes, <<"rotation">>) THEN 90 ELSE 0]

\* lines 235-242
suggested_rotations(changes) ==
    [x |-> IF AnyMentions(changes, <<"180\\u00b0", "X-axis">>) THEN 180 ELSE 0,
     y |-> IF AnyMentions(changes, <<"180\\u00b0", "Y-axis">>) THEN 180 ELSE 0,
     z |-> IF AnyMentions(changes, <<"90\\u00b0", "rotation">>) THEN 90 ELSE 0]

\* the verdict taken from the suggestion instead of the findings
orientation_correct_by_rotation(changes) ==
    suggested_rotations(changes) = [x |-> 0, y |-> 0, z |-> 0]

\* line 244
orientation_correct(changes) == Len(changes) = 0

check_orientation(sample_peaks, sample_proj_1d, template_key, template_info) ==
    IF template_info = None
    THEN [correct |-> FALSE, changes |-> <<TemplateNotLoaded>>,
          rotations |-> [x |-> 0, y |-> 0, z |-> 0]]
    ELSE LET t == template_info[1]
             changes ==
                 peak_ratio(0, sample_peaks[1], t.peaks[1])
                 \o peak_ratio(1, sample_peaks[2], t.peaks[2])
                 \o peak_ratio(2, sample_peaks[3], t.peaks[3])
                 \o y_asymmetry(template_key, sample_proj_1d[2])
                 \o x_asymmetry(template_key, sample_proj_1d[1])
                 \o z_flip(template_key, sample_proj_1d[3], t.z)
         IN  [correct |-> orientation_correct(changes), changes |-> changes,
              rotations |-> suggested_rotations(changes)]

\* the inputs of the model: (sample, template) peak counts of one axis, and profiles
PeakPairs == {<<3, 0>>, <<2, 1>>, <<3, 1>>, <<3, 10>>, <<2, 10>>}
XProfiles == {<<0, 0>>, <<13, 7>>, <<6, 14>>}
YProfiles == {<<0, 0>>, <<17, 23>>, <<0, 10>>, <<1, 2, 3>>}
RampUp == <<0, 1, 2, 3, 4, 5, 6, 7, 8, 9, 10>>
Hump == <<1, 2, 3, 4, 5, 3, 5, 4, 3, 2, 1>>
ZProfiles == {RampUp, Reverse(RampUp), <<5, 5, 5, 5, 5, 5, 5, 5, 5, 5, 5>>, <<1, 2>>}
ZTemplates == {RampUp, Hump}

InitOrient ==
    /\ tiff = Absent
    /\ progress = NoProgress
    /\ tmp = Absent
    /\ store = NoStore
    /\ bgN = NoNrrd
    /\ sigN = NoNrrd
    /\ backup = Absent
    /\ pc = "idle"
    /\ op = "none"
    /\ req = <<>>
    /\ mem = NoStack
    /\ outcome = "none"
    /\ touched = {}
    /\ pre = [tiff |-> Absent, store |-> NoStore, bgN |-> NoNrrd, sigN |-> NoNrrd]
    /\ hist = Fresh
    /\ nops = 0
    /\ io = NoCall

\* main, lines 518-520: one comparison per run
CheckOrientation ==
    /\ nops = 0
    /\ nops' = 1
    /\ \E p0 \in PeakPairs, p1 \in PeakPairs, p2 \in PeakPairs, x_proj \in XProfiles,
          y_proj \in YProfiles, z_sample \in ZProfiles, z_template \in ZTemplates,
          template_key \in TemplateKeys, loaded \in BOOLEAN :
        LET sample_peaks == <<p0[1], p1[1], p2[1]>>
            sample_proj_1d == <<x_proj, y_proj, z_sample>>
            template_info ==
                IF loaded THEN Some([peaks |-> <<p0[2], p1[2], p2[2]>>, z |-> z_template])
                ELSE None
        IN  io' = [fn |-> "check_orientation",
                   args |-> <<sample_peaks, sample_proj_1d, template_key, template_info>>,
                   before |-> NoStore,
                   ret |-> check_orientation(sample_peaks, sample_proj_1d, template_key,
                                             template_info)]
    /\ UNCHANGED <<progress, tiff, tmp, store, bgN, sigN, backup, pc, op, req, mem, outcome, touched,
                   pre, hist>>

NextOrient == CheckOrientation

SpecOrient == InitOrient /\ [][NextOrient]_vars

----------------------------------------------------------------------------
(* SpecWide: one run of apply_rotation.main on a request whose amounts may *)
(* exceed one full turn.                                                   *)

WideDegrees == Degrees \cup {360, 450}

WideRequests ==
    UNION {{r \in [1..n -> AxisNames \X WideDegrees] : DistinctAxes(r)} : n \in 0..MaxAxes}

\* main, lines 44-138, with no failure of the file system
RotateOnce(rotations) ==
    /\ nops = 0
    /\ nops' = 1
    /\ pc = "idle"
    /\ tiff.st = "full"
    /\ op' = "rotate"
    /\ io' = [fn |-> "apply_rotation", args |-> <<rotations>>, before |-> store, ret |-> <<>>]
    /\ LET r == RotateStack(tiff.body, rotations)
       IN  IF r.err # "none"
           THEN /\ outcome' = r.err
                /\ UNCHANGED <<tiff, store, hist>>
           ELSE /\ outcome' = "ok"
                /\ tiff' = Full(r.stack)
                /\ store' = update_voxel_sizes_after_rotation(store, ImagePath, rotations).store
                /\ hist' = AfterRotation(hist, rotations)
    /\ UNCHANGED <<progress, tmp, bgN, sigN, backup, pc, req, mem, touched, pre>>

NextWide == \E r \in WideRequests : RotateOnce(r)

SpecWide == Init /\ [][NextWide]_vars

----------------------------------------------------------------------------
(* SpecCycle: rotations run to completion, then resets and analyses.       *)

RotateFirst(rotations) == nops = 0 /\ Rotate(rotations)

NextCycle ==
    \/ \E r \in Requests : RotateFirst(r)
    \/ \E b \in BuildArgs : Reset(b)
    \/ \E c \in AnalyzeBg : Analyze(c)

SpecCycle == Init /\ [][NextCycle]_vars

----------------------------------------------------------------------------
(* SpecRace: two processes, each writing orientations.json for its own     *)
(* image, with nothing to keep one from running between the other's read   *)
(* of the file and its write.  req holds what each process is (a save, a   *)
(* spacing update after a rotation, a reset), pc where each stands and mem *)
(* the file contents each has read.                                        *)

PeerKey == <<"d", "/", "c">>
WriterIds == <<ImagePath, PeerKey>>
Writers == {1, 2}
WriterKinds == {"save", "update", "reset"}

RaceRecord == Record(ImageInfo(RawShape, 1, 0, RawMeta), "a0", Manual(<<90, 0, 0>>, 0))
RaceStores ==
    {NoStore,
     OneRecord(ImagePath, RaceRecord),
     OneRecord(PeerKey, RaceRecord),
     StoreOf(<<[key |-> ImagePath, rec |-> RaceRecord], [key |-> PeerKey, rec |-> RaceRecord]>>)}

\* what a writer of this kind makes of the contents it has read
Merged(kind, st, id) ==
    CASE kind = "save" ->
             save_to_orientations(st, id, ImageInfo(RawShape, 1, 0, MeasuredTriple), "a1")
      [] kind = "update" -> update_voxel_sizes_after_rotation(st, id, <<<<"x", 90>>>>).store
      [] kind = "reset" -> IF st.exists THEN clear_rotations(st, id) ELSE st

\* whether it writes the file at all
WritesFile(kind, st, id) ==
    CASE kind = "save" -> TRUE
      [] kind = "update" -> update_voxel_sizes_after_rotation(st, id, <<<<"x", 90>>>>).wrote
      [] kind = "reset" -> st.exists

InitRace ==
    /\ tiff = Absent
    /\ progress = NoProgress
    /\ tmp = Absent
    /\ store \in RaceStores
    /\ bgN = NoNrrd
    /\ sigN = NoNrrd
    /\ backup = Absent
    /\ pc = <<"read", "read">>
    /\ op = "none"
    /\ req \in WriterKinds \X WriterKinds
    /\ mem = <<NoStore, NoStore>>
    /\ outcome = "running"
    /\ touched = {}
    /\ pre = [tiff |-> Absent, store |-> store, bgN |-> NoNrrd, sigN |-> NoNrrd]
    /\ hist = Fresh
    /\ nops = 0
    /\ io = NoCall

\* get_image_data.py 334-335, apply_rotation.py 155-160, reset_rotation.py 35-36
ReadStore(w) ==
    /\ pc[w] = "read"
    /\ mem' = [mem EXCEPT ![w] = store]
    /\ pc' = [pc EXCEPT ![w] = "write"]
    /\ UNCHANGED <<progress, tiff, tmp, store, bgN, sigN, backup, op, req, outcome, touched, pre, hist,
                   nops, io>>

\* get_image_data.py 337-350, apply_rotation.py 162-195, reset_rotation.py 38-45
WriteStore(w) ==
    /\ pc[w] = "write"
    /\ store' = IF WritesFile(req[w], mem[w], WriterIds[w])
                THEN Merged(req[w], mem[w], WriterIds[w])
                ELSE store
    /\ pc' = [pc EXCEPT ![w] = "done"]
    /\ UNCHANGED <<progress, tiff, tmp, bgN, sigN, backup, op, req, mem, outcome, touched, pre, hist,
                   nops, io>>

NextRace == \E w \in Writers : ReadStore(w) \/ WriteStore(w)

SpecRace == InitRace /\ [][NextRace]_vars

----------------------------------------------------------------------------
(* SpecProgress: update_alignment_progress.py, run after run on one job    *)

ProgressActions == {"start", "stage_start", "stage_end", "complete", "fail", "status"}
StageNames == {"affine", "warp"}
ErrorMessages == {"Unknown error", "registration failed"}

\* sys.argv[3], "" where the action takes none
ProgressArgs(action) ==
    CASE action \in {"stage_start", "stage_end"} -> StageNames
      [] action = "fail" -> ErrorMessages
      [] OTHER -> {""}

\* lines 73-118
updated(data, action, arg, now) ==
    CASE action = "start" ->
             [data EXCEPT !.started_at = Some(now), !.current_stage = Some("initializing"),
                          !.completed_at = None, !.failed_at = None, !.error = None]
      [] action = "stage_start" ->
             [data EXCEPT !.current_stage = Some(arg),
                          !.stages = Put(@, arg, [started_at |-> Some(now),
                                                  completed_at |-> None,
                                                  duration_seconds |-> None])]
      [] action = "stage_end" ->
             IF arg \in DOMAIN data.stages /\ data.stages[arg].started_at # None
             THEN [data EXCEPT !.stages[arg].completed_at = Some(now),
                               !.stages[arg].duration_seconds =
                                   Some(now - data.stages[arg].started_at[1])]
             ELSE [data EXCEPT !.stages = Put(@, arg, [started_at |-> Some(now),
                                                       completed_at |-> Some(now),
                                                       duration_seconds |-> Some(0)])]
      [] action = "complete" ->
             [data EXCEPT !.current_stage = Some("completed"), !.completed_at = Some(now)]
      [] action = "fail" ->
             [data EXCEPT !.current_stage = Some("failed"), !.failed_at = Some(now),
                          !.error = Some(arg)]

\* main, lines 56-124
UpdateProgress(action, arg) ==
    /\ nops < MaxRuns
    /\ nops' = nops + 1
    /\ op' = "progress"
    /\ io' = [fn |-> "update_alignment_progress", args |-> <<action, arg>>,
              before |-> NoStore, ret |-> <<>>]
    /\ IF action \in {"start", "stage_start", "stage_end", "complete", "fail"}
       THEN /\ progress' = [exists |-> TRUE,
                            data |-> updated(read_progress(progress), action, arg, nops + 1)]
            /\ outcome' = "ok"
       ELSE /\ outcome' = "Unknown action"
            /\ UNCHANGED progress
    /\ UNCHANGED <<tiff, tmp, store, bgN, sigN, backup, pc, req, mem, touched, pre, hist>>

NextProgress == \E action \in ProgressActions : \E arg \in ProgressArgs(action) :
                    UpdateProgress(action, arg)

SpecProgress == Init /\ [][NextProgress]_vars

----------------------------------------------------------------------------
(* Properties *)

ValidRequest(r) == \A i \in DOMAIN r : r[i][2] \in {0, 90, 180, 270}
AllZero(r) == \A i \in DOMAIN r : r[i][2] = 0
NotMultipleOf90(r) == \E i \in DOMAIN r : r[i][2] % 90 # 0

\* the image file the current / last rotation run is to produce
RotatedFile == Full(RotateStack(pre.tiff.body, req).stack)
\* the store it is to produce
UpdatedStore == update_voxel_sizes_after_rotation(pre.store, ImagePath, req).store

HasRecord(st) == st.exists /\ KeyIndex(st.entries, ImagePath) # 0
RecordedVox(st) == st.entries[KeyIndex(st.entries, ImagePath)].rec.image_info.voxel_sizes

\* the request with its x entry first, then y, then z
Pick(r, a) == SelectSeq(r, LAMBDA e : e[1] = a)
XYZOrder(r) == Pick(r, "x") \o Pick(r, "y") \o Pick(r, "z")

\* [vx, vy, vz] carried along with the axes of a [Z, Y, X] volume: canonical axis j
\* is array axis 4 - j, which runs along acquired axis vol.ax[4 - j]
CarriedSpacing(vox0, vol) == [j \in 1..3 |-> vox0[4 - vol.ax[4 - j]]]

\* canonical [X, Y, Z] shape of the stack in a file
CanonicalShape(file) == TransposeZYX(file.body.chans[1]).shape

\* C1: at every step of a rotation run, and after it was killed at any step, the image
\* file holds its pre-rotation content or the fully rotated content, never a partial one.
C1_AtomicPersistence ==
    op = "rotate" =>
        \/ tiff = pre.tiff
        \/ ValidRequest(req) /\ tiff = RotatedFile

\* killed after the temporary file was fully written and before the rename
C1_Witness ==
    /\ op = "rotate" /\ outcome = "killed"
    /\ tmp.st = "full" /\ tmp # pre.tiff
    /\ tiff = pre.tiff

\* C2: a rotation run that stopped left the image file and the recorded spacing both
\* as they were, or both rotated.
C2_AllOrNothing ==
    (op = "rotate" /\ pc = "idle") =>
        \/ tiff = pre.tiff /\ store = pre.store
        \/ ValidRequest(req) /\ tiff = RotatedFile /\ store = UpdatedStore

\* C3: the raw stack file always holds the acquired stack.
C3_RawStackImmutable == tiff.st = "full" /\ tiff.body \in RawStacks

\* C4: after completed rotation requests the recorded [vx, vy, vz] is the initially
\* recorded spacing carried along with the axes of the data.
C4_SpacingFollowsData ==
    (hist.kind \in {"rep", "rots"} /\ HasRecord(store)) =>
        RecordedVox(store) = CarriedSpacing(RecordedVox(pre.store), tiff.body.chans[1])

\* C5: a completed single quarter turn about x swaps canonical axes 1 and 2 (0-based)
\* of the recorded spacing and of the shape, about y axes 0 and 2, about z axes 0 and 1;
\* a request of 0 and 180 degree amounts only leaves the recorded spacing unchanged.
C5_QuarterTurnSwaps ==
    (op = "rotate" /\ outcome = "ok" /\ HasRecord(pre.store)) =>
        LET v0 == RecordedVox(pre.store)
            v1 == RecordedVox(store)
            s0 == CanonicalShape(pre.tiff)
            s1 == CanonicalShape(tiff)
            nz == NonZero(req)
        IN  /\ nz = << <<"x", 90>> >> => v1 = Swap(v0, 2, 3) /\ s1 = Swap(s0, 2, 3)
            /\ nz = << <<"y", 90>> >> => v1 = Swap(v0, 1, 3) /\ s1 = Swap(s0, 1, 3)
            /\ nz = << <<"z", 90>> >> => v1 = Swap(v0, 1, 2) /\ s1 = Swap(s0, 1, 2)
            /\ (\A i \in DOMAIN req : req[i][2] \in {0, 180}) => v1 = v0

SameGeometry(a, b) == a.vol.shape = b.vol.shape /\ a.vox = b.vox
ChannelsAgree(stack) ==
    \A c \in DOMAIN stack.chans : stack.chans[c].shape = stack.chans[1].shape

C7_FixedOrder ==
    (op = "rotate" /\ outcome = "ok") =>
        /\ tiff = Full(RotateStack(pre.tiff.body, XYZOrder(req)).stack)
        /\ store = update_voxel_sizes_after_rotation(pre.store, ImagePath, XYZOrder(req)).store

\* C8: n completed runs of one single-axis request of d degrees with n * d a multiple
\* of 360 bring back the initial array content and the initial recorded spacing.
C8_FullTurnIdentity ==
    (hist.kind = "rep" /\ (hist.n * hist.deg) % 360 = 0) =>
        tiff = pre.tiff /\ store = pre.store

\* four quarter turns about x of an image with a measured spacing on record
C8_Witness ==
    /\ hist.kind = "rep" /\ hist.axis = "x" /\ hist.deg = 90 /\ hist.n = 4
    /\ HasRecord(store) /\ RecordedVox(store) # DefaultTriple

\* C9: a run whose amounts are all 0 writes no file.
C9_NoOpWritesNothing ==
    (op = "rotate" /\ AllZero(req)) => touched = {}

\* C10: a request with an amount that is no multiple of 90 ends in ValueError with no
\* temporary file and with the image file and the store as they were.
C10_InvalidAborts ==
    (op = "rotate" /\ NotMultipleOf90(req)) =>
        /\ pc = "idle" /\ outcome = "ValueError"
        /\ touched = {} /\ tmp = Absent
        /\ tiff = pre.tiff /\ store = pre.store

\* the invalid amount comes after a valid quarter turn
C10_Witness ==
    /\ op = "rotate" /\ outcome = "ValueError"
    /\ req = << <<"x", 90>>, <<"y", 45>> >>

\* C11: a rotation run whose write to the temporary file, or whose rename, failed ends
\* with the error, with no temporary file left, and with the image file and the store
\* as they were before the run.
C11_WriteFailureCleansUp ==
    (op = "rotate" /\ outcome = "OSError") =>
        /\ pc = "idle"
        /\ tmp = Absent
        /\ tiff = pre.tiff /\ store = pre.store
        /\ touched \subseteq {"tmp"}

\* the write of a quarter turn failed for an image with a measured spacing on record
C11_Witness ==
    /\ op = "rotate" /\ outcome = "OSError"
    /\ req = << <<"x", 90>> >>
    /\ "tmp" \in touched
    /\ HasRecord(store) /\ RecordedVox(store) # DefaultTriple

\* the record stored under the exact key id
RecOf(st, id) == st.entries[KeyIndex(st.entries, id)].rec
HasKey(st, id) == st.exists /\ KeyIndex(st.entries, id) # 0
MergedKeys == {"image_info", "automated_analysis"}

\* C12: after any sequence of saves, every record that held manual_corrections at the
\* start still holds the same manual_corrections and the same value under every other
\* key except image_info and automated_analysis, and the record saved last holds the
\* automated_analysis of that call.
C12_MergePreservesManual ==
    op = "save" =>
        /\ \A id \in {ImagePath, OtherKey} :
              (HasKey(pre.store, id) /\ RecOf(pre.store, id).manual_corrections.present) =>
                  /\ HasKey(store, id)
                  /\ DOMAIN RecOf(store, id) = DOMAIN RecOf(pre.store, id)
                  /\ \A k \in DOMAIN RecOf(pre.store, id) \ MergedKeys :
                        RecOf(store, id)[k] = RecOf(pre.store, id)[k]
        /\ HasKey(store, io.args[1])
        /\ RecOf(store, io.args[1]).automated_analysis = io.args[3]

\* a second save on an approved record with manual corrections, with another analysis
C12_Witness ==
    /\ op = "save" /\ io.args[1] = ImagePath /\ io.args[3] = "a2"
    /\ HasKey(io.before, ImagePath)
    /\ RecOf(io.before, ImagePath).automated_analysis = "a1"
    /\ RecOf(store, ImagePath).manual_corrections = Manual(<<0, 90, 0>>, 0)
    /\ "approved" \in DOMAIN RecOf(store, ImagePath)

\* voxel_sizes of a record as the code reads it: <<>> when the key is absent
StoredVox(st, id) ==
    IF HasKey(st, id) /\ RecOf(st, id).image_info.present
    THEN RecOf(st, id).image_info.voxel_sizes
    ELSE <<>>

\* C13: a save over a stored default or absent voxel_sizes stores the caller's triple;
\* a save of the default triple over a stored non-default triple leaves it as it was.
C13_DefaultSpacingGuard ==
    op = "save" =>
        LET id == io.args[1]
            was == StoredVox(io.before, id)
            given == io.args[2].voxel_sizes
        IN  /\ was \in {<<>>, DefaultTriple} => StoredVox(store, id) = given
            /\ (was \notin {<<>>, DefaultTriple} /\ given = DefaultTriple) =>
                   StoredVox(store, id) = was

\* the default triple was offered to a record with a measured triple
C13_Witness ==
    /\ op = "save" /\ io.args[1] = ImagePath
    /\ StoredVox(io.before, ImagePath) = RawMeta
    /\ io.args[2].voxel_sizes = DefaultTriple

\* a measured triple was saved over a stored default triple
C13_WitnessOverwrite ==
    /\ op = "save" /\ io.args[1] = ImagePath
    /\ StoredVox(io.before, ImagePath) = DefaultTriple
    /\ io.args[2].voxel_sizes = MeasuredTriple

\* what convert_and_split writes for channel c of the acquired, never rotated stack
BuiltFromRaw(n) ==
    /\ n.st = "full"
    /\ n.vol = TransposeZYX(RawChannel(n.vol.chan))
    /\ n.vox = RawMeta

Probes == {<<1, 1, 1>>, <<512, 1, 1>>, <<1, 512, 40>>, <<3, 7, 11>>}

\* volume file n holds channel c of the stack, element [x, y, z] being element [z, y, x]
\* of the channel, and carries the spacing <<vx, vy, vz>> of the acquired stack
CanonicalOf(n, stack, c) ==
    /\ n.st = "full"
    /\ n.vol.shape = <<stack.chans[c].shape[3], stack.chans[c].shape[2],
                       stack.chans[c].shape[1]>>
    /\ \A p \in Probes :
          VoxelAt(n.vol, p) = VoxelAt(stack.chans[c], <<p[3], p[2], p[1]>>)
    /\ n.vox = RawMeta

\* C15: a completed build of a [Z, C, Y, X] or [Z, Y, X] stack leaves a signal and a
\* background volume in [X, Y, Z] order, of shape (X, Y, Z), (512, 512, 40) for the
\* acquired stack, both with the spacing (vx, vy, vz).
C15_BuilderTransposes ==
    (op = "build" /\ outcome = "ok") =>
        /\ tiff.body.ndim \in {3, 4}
        /\ CanonicalOf(bgN, tiff.body, bgN.vol.chan + 1)
        /\ CanonicalOf(sigN, tiff.body, sigN.vol.chan + 1)
        /\ bgN.vol.shape = <<512, 512, 40>> /\ sigN.vol.shape = <<512, 512, 40>>
        /\ bgN.vox = sigN.vox

\* the two-channel stack was built with background 0 over stale channel files
C15_Witness ==
    /\ op = "build" /\ outcome = "ok"
    /\ tiff.body.ndim = 4 /\ Len(tiff.body.chans) = 2
    /\ bgN.vol.chan = 0 /\ sigN.vol.chan = 1
    /\ pre.bgN = StaleBg

\* the background choices persisted in the image's own record
PersistedChoices(st) ==
    IF ~HasKey(st, ImagePath) THEN {}
    ELSE LET rec == RecOf(st, ImagePath)
             manual == IF rec.manual_corrections.present
                       THEN {rec.manual_corrections.background_channel} ELSE {}
             info == IF rec.image_info.present
                     THEN {rec.image_info.background_channel} ELSE {}
         IN  (manual \cup info) \ {-1}

\* C16: a completed build of a multi-channel stack took as background the choice
\* persisted in the image's record, 1 when there is none, and as signal 1 - background
\* for two channels and 0 for more than two.
C16_ChannelSelection ==
    (op = "build" /\ outcome = "ok" /\ tiff.body.ndim = 4) =>
        LET bg == bgN.vol.chan
            sig == sigN.vol.chan
            num_channels == Len(tiff.body.chans)
        IN  /\ IF PersistedChoices(store) # {}
               THEN bg \in PersistedChoices(store)
               ELSE bg = 1
            /\ num_channels = 2 => sig = 1 - bg
            /\ num_channels > 2 => sig = 0

BuildErrors == {"FileNotFoundError", "ValueError"}

\* whether a raw stack matches the identity the last build was given
StackMatches == tiff.st # "absent" /\ IsSubstr(io.args[1], FileName)

\* C17: a build with no raw stack matching the identity ended in FileNotFoundError, a
\* build of a stack of rank other than 3 and 4 in ValueError, and a build that ended in
\* either wrote no file and left both channel files and the store as they were.
C17_BuilderErrorsWriteNothing ==
    op = "build" =>
        /\ ~StackMatches => outcome = "FileNotFoundError"
        /\ (StackMatches /\ tiff.body.ndim \notin {3, 4}) => outcome = "ValueError"
        /\ outcome \in BuildErrors =>
               /\ touched = {}
               /\ bgN = pre.bgN /\ sigN = pre.sigN
               /\ store = pre.store /\ tiff = pre.tiff

\* a rank-5 stack was refused while channel files of an earlier build exist
C17_Witness ==
    /\ op = "build" /\ outcome = "ValueError"
    /\ tiff.body.ndim = 5
    /\ bgN = StaleBg /\ sigN = StaleSig

\* no file matches the path-qualified identity
C17_WitnessNotFound ==
    /\ op = "build" /\ outcome = "FileNotFoundError"
    /\ tiff.st = "full" /\ io.args[1] = ImagePath

Extractors == {"extract_xyz", "extract_zyx"}

\* neither the ImageJ block nor the OME block is there to be read
NoMetadata(tif) == ~tif.ij.present /\ tif.ome.kind \in {"none", "malformed"}

\* C18: whatever the metadata, the extractor returned a triple, each component greater
\* than 0, and the default on all three axes when neither metadata block yields a value.
C18_ExtractorTotalPositive ==
    io.fn \in Extractors =>
        /\ Len(io.ret) = 3
        /\ \A i \in 1..3 : io.ret[i] > 0
        /\ NoMetadata(io.args[1]) => io.ret = DefaultTriple

\* C18 without the sign: a triple is always returned, the default one without metadata
C18_ExtractorTotal ==
    io.fn \in Extractors =>
        /\ Len(io.ret) = 3
        /\ NoMetadata(io.args[1]) => io.ret = DefaultTriple

\* text that float() refuses in the ImageJ block, nothing usable in the OME block
C18_Witness ==
    /\ io.fn = "extract_xyz"
    /\ io.args[1].ij.present /\ io.args[1].ij.spacing = BadV
    /\ io.args[1].ome = MalformedOme
    /\ io.ret = DefaultTriple

\* the analysis started with both channel files there and at least one of them unreadable
FoundCorrupt ==
    /\ pre.bgN.st # "absent" /\ pre.sigN.st # "absent"
    /\ pre.bgN.st = "partial" \/ pre.sigN.st = "partial"

\* C19: an analysis that found the channel files present with one of them unreadable
\* completed, and afterwards the signal and the background file both exist, parse and
\* hold the channels of the raw stack in canonical order.
C19_CorruptRecovery ==
    (op = "analyze" /\ FoundCorrupt) =>
        /\ outcome = "ok"
        /\ bgN.st = "full" /\ sigN.st = "full"
        /\ CanonicalOf(bgN, tiff.body, bgN.vol.chan + 1)
        /\ CanonicalOf(sigN, tiff.body, sigN.vol.chan + 1)

\* C19 for stacks with a channel axis
C19_CorruptRecoveryMultiChannel ==
    (op = "analyze" /\ FoundCorrupt /\ tiff.body.ndim = 4) =>
        /\ outcome = "ok"
        /\ bgN.st = "full" /\ sigN.st = "full"
        /\ CanonicalOf(bgN, tiff.body, bgN.vol.chan + 1)
        /\ CanonicalOf(sigN, tiff.body, sigN.vol.chan + 1)
        /\ bgN.vol.chan # sigN.vol.chan

\* a two-channel stack recovered from an unreadable signal file
C19_Witness ==
    /\ op = "analyze" /\ outcome = "ok" /\ tiff.body.ndim = 4
    /\ pre.sigN = CorruptNrrd /\ pre.bgN.st = "full"
    /\ sigN.st = "full"

\* Python's t.endswith(s) with s shorter than t
IsProperSuffix(s, t) ==
    Len(s) < Len(t) /\ SubSeq(t, Len(t) - Len(s) + 1, Len(t)) = s

Keys(st) == IF st.exists THEN {st.entries[i].key : i \in DOMAIN st.entries} ELSE {}

\* C20: a save under an identity that is a suffix of a longer stored key went to the
\* record stored under that key: that record holds the analysis of the call and the
\* store has no key it did not have before.
C20_SuffixIdentityResolves ==
    (op = "save" /\ HasKey(io.before, ImagePath) /\ IsProperSuffix(io.args[1], ImagePath)) =>
        /\ Keys(store) = Keys(io.before)
        /\ RecOf(store, ImagePath).automated_analysis = io.args[3]

\* C21: in whatever order the three workers finished, analyze_projections returned
\* three mappings with exactly the keys 0, 1, 2, key i holding what process_axis
\* computes for axis i.
C21_ByAxisReduction ==
    (io.fn = "analyze_projections" /\ pc = "idle") =>
        /\ DOMAIN io.ret.projections_2d = Axes
        /\ DOMAIN io.ret.projections_1d = Axes
        /\ DOMAIN io.ret.peaks_data = Axes
        /\ \A i \in Axes :
              /\ io.ret.projections_2d[i] = process_axis(io.args[1], i).proj_2d
              /\ io.ret.projections_1d[i] = process_axis(io.args[1], i).proj_1d
              /\ io.ret.peaks_data[i] = process_axis(io.args[1], i).peaks

\* the workers finished in the order 2, 0, 1 on a volume whose projections differ
C21_Witness ==
    /\ io.fn = "analyze_projections" /\ pc = "idle"
    /\ io.ret.order = <<2, 0, 1>>
    /\ io.ret.projections_2d[0] # io.ret.projections_2d[2]
    /\ io.ret.projections_1d[0] # io.ret.projections_1d[1]

Compared == io.fn = "check_orientation"
Loaded == io.args[4] # None
Found(change) == \E i \in DOMAIN io.ret.changes : io.ret.changes[i] = change

\* C22: the verdict of a comparison is "correct" exactly when it lists no finding; a
\* template that could not be loaded is a finding and the verdict is "not correct".
C22_CorrectIffNoFindings ==
    Compared =>
        /\ io.ret.correct <=> (io.ret.changes = <<>>)
        /\ ~Loaded => (~io.ret.correct /\ io.ret.changes # <<>>)

\* a loaded template and a sample that gives no finding
C22_Witness == Compared /\ Loaded /\ io.ret.changes = <<>> /\ io.ret.correct

\* C23: the suggested rotation has y = 180 exactly when the Y-asymmetry finding was
\* made, z = 90 exactly when the X-asymmetry finding was made, x = 180 exactly when the
\* Z-flip finding was made, and 0 in every other case; peak-count findings suggest no
\* rotation.
C23_RotationIsUnion ==
    Compared =>
        /\ io.ret.rotations.y = (IF Found(YFlipSuggested) THEN 180 ELSE 0)
        /\ io.ret.rotations.z = (IF Found(XAsymmetric) THEN 90 ELSE 0)
        /\ io.ret.rotations.x = (IF Found(ZFlipSuggested) THEN 180 ELSE 0)

\* the three shape heuristics and a peak-count heuristic all made a finding
C23_Witness ==
    /\ Compared
    /\ Found(YFlipSuggested) /\ Found(XAsymmetric) /\ Found(ZFlipSuggested)
    /\ Len(io.ret.changes) > 3
    /\ io.ret.rotations = [x |-> 180, y |-> 180, z |-> 90]

YFront == FirstHalf(io.args[2][2])
YBack == SecondHalf(io.args[2][2])
YBelowThreshold == 100 * (YFront - YBack) < -15 * (YFront + YBack)

\* C24 as stated: against any loaded template, with front + back > 0, the Y flip is
\* found and y = 180 suggested exactly when (front - back) / (front + back) < -0.15.
C24_YAsymmetryAnyTemplate ==
    (Compared /\ Loaded /\ YFront + YBack > 0) =>
        /\ Found(YFlipSuggested) <=> YBelowThreshold
        /\ io.ret.rotations.y = 180 <=> YBelowThreshold

\* C24, amended: the same against a loaded template whose key starts with JRC2018U;
\* against any other template the Y profile is not looked at and y stays 0.
C24_YAsymmetryBrainTemplate ==
    (Compared /\ Loaded) =>
        IF startswith(io.args[3], BrainPrefix) /\ YFront + YBack > 0
        THEN /\ Found(YFlipSuggested) <=> YBelowThreshold
             /\ io.ret.rotations.y = 180 <=> YBelowThreshold
        ELSE ~Found(YFlipSuggested) /\ io.ret.rotations.y = 0

\* a brain template and a Y profile with (front - back) / (front + back) = -1
C24_Witness ==
    /\ Compared /\ Loaded /\ startswith(io.args[3], BrainPrefix)
    /\ io.args[2][2] = <<0, 10>>
    /\ Found(YFlipSuggested) /\ io.ret.rotations.y = 180

\* C25: for each axis whose template peak count is positive, the axis-swap finding is
\* made exactly when the sample has more than 2 times the template's peaks and the
\* clipping finding exactly when it has less than 0.3 times; in between, none.
C25_PeakRatio ==
    (Compared /\ Loaded) =>
        \A axis \in Axes :
            LET s_peaks == io.args[1][axis + 1]
                t_peaks == io.args[4][1].peaks[axis + 1]
            IN  t_peaks > 0 =>
                    /\ Found(TooManyPeaks(axis, s_peaks, t_peaks)) <=> s_peaks > 2 * t_peaks
                    /\ Found(TooFewPeaks(axis, s_peaks, t_peaks))
                          <=> 10 * s_peaks < 3 * t_peaks

\* 3 peaks against 1 on axis 0, 2 against 10 on axis 1, 3 against 10 (ratio 0.3) on axis 2
C25_Witness ==
    /\ Compared /\ Loaded
    /\ io.args[1] = <<3, 2, 3>> /\ io.args[4][1].peaks = <<1, 10, 10>>
    /\ Found(TooManyPeaks(0, 3, 1)) /\ Found(TooFewPeaks(1, 2, 10))
    /\ ~Found(TooManyPeaks(2, 3, 10)) /\ ~Found(TooFewPeaks(2, 3, 10))

MultiplesOf90(r) == \A i \in DOMAIN r : r[i][2] % 90 = 0
\* the request with every amount reduced to less than one full turn
Reduced(r) == [i \in DOMAIN r |-> <<r[i][1], r[i][2] % 360>>]

\* C26: a request whose amounts are all multiples of 90 degrees is accepted, and the
\* image and the recorded spacing end as after the same request with every amount
\* reduced modulo 360 (360 as 0, 450 as 90).
C26_FullTurnsAccepted ==
    (io.fn = "apply_rotation" /\ MultiplesOf90(io.args[1])) =>
        /\ outcome = "ok"
        /\ tiff = Full(RotateStack(pre.tiff.body, Reduced(io.args[1])).stack)
        /\ store = update_voxel_sizes_after_rotation(pre.store, ImagePath,
                                                     Reduced(io.args[1])).store

\* the last two runs were a successful reset and then a successful analysis
ResetThenAnalysed ==
    /\ op = "analyze" /\ outcome = "ok"
    /\ io.fn = "reset_rotation" /\ io.ret = <<"ok">>

\* C27: once the image has been rotated, then reset, then analysed again, the spacing
\* recorded for it is the spacing of the regenerated channel files.
C27_ResetDiscardsPermutedSpacing ==
    (ResetThenAnalysed /\ hist.kind # "fresh") =>
        /\ HasRecord(store)
        /\ RecordedVox(store) = bgN.vox

\* C28: when two writers for two different images have both finished, in whatever
\* order their reads and writes fell, the file holds for each image the record that
\* image's writer would have left had it run alone.
C28_NoLostUpdate ==
    pc = <<"done", "done">> =>
        \A w \in Writers :
            LET id == WriterIds[w]
                alone == Merged(req[w], pre.store, id)
            IN  /\ HasKey(store, id) <=> HasKey(alone, id)
                /\ HasKey(alone, id) => RecOf(store, id) = RecOf(alone, id)

\* the last run was a successful reset
JustReset == op = "reset" /\ outcome = "ok" /\ io.fn = "reset_rotation"

\* C29: a reset for an image leaves orientations.json as it was except for
\* manual_corrections.rotations of that image's own record: the rest of that record
\* and every other record, one whose key merely contains the identity included, are
\* unchanged.
C29_ResetFrame ==
    JustReset =>
        /\ store.exists = io.before.exists
        /\ Len(store.entries) = Len(io.before.entries)
        /\ \A i \in DOMAIN io.before.entries :
              LET was == io.before.entries[i]
                  now == store.entries[i]
              IN  /\ now.key = was.key
                  /\ IF was.key = ImagePath
                     THEN /\ now.rec.image_info = was.rec.image_info
                          /\ now.rec.automated_analysis = was.rec.automated_analysis
                          /\ now.rec.manual_corrections.background_channel
                                = was.rec.manual_corrections.background_channel
                     ELSE now.rec = was.rec

\* C30: whatever runs of start, stage_start, stage_end, complete and fail came before,
\* a progress record that says "completed" carries no failure time and no error, and
\* one that says "failed" carries no completion time.
C30_CompletedXorFailed ==
    progress.exists =>
        /\ progress.data.current_stage = Some("completed") =>
               (progress.data.failed_at = None /\ progress.data.error = None)
        /\ progress.data.current_stage = Some("failed") =>
               progress.data.completed_at = None

====
